---- MODULE Spec2Model ----
(***************************************************************************)
(* Model of fsimageplugin/filesystem.cpp: the Filesystem block device      *)
(* (bitmap test, buffer pool, direct reads with short-read retry) and the  *)
(* ReadaheadThread that is started beside it.                              *)
(*                                                                         *)
(* Threads: one caller thread (the consumer, which is also the owner that  *)
(* destroys the Filesystem) and, when read_ahead is set, the readahead     *)
(* task.  Every section executed under ReadaheadThread::mutex is one       *)
(* action; the task's scan loop (lines 108-116) holds the mutex over       *)
(* several steps, so the actions that need the mutex are guarded by        *)
(* MutexFree.                                                              *)
(***************************************************************************)
EXTENDS Integers, Sequences, FiniteSets, TLC

\* ------------------------------------------------------------- bounds
\* number of addressable blocks of the device, getSize()/getBlocksize()
TotalBlocks == 8
\* getBlocksize(), in bytes
BlockSize == 2
\* buffers the program may allocate with new[] in one run
MaxAlloc == 2
\* buffers the caller keeps before it releases one
MaxHeld == 1
\* n of the readBlocks(pStartBlock, n, ...) calls
MaxRun == 2

\* -------------------------------------------------- program constants
max_idle_buffers == 64
\* readahead_num_blocks written without its value
readahead_num_blocks_zero == 0
readahead_num_blocks == 5120
readahead_low_level_blocks == readahead_num_blocks \div 2
\* int tries=20 in readFromDev
ReadTries == 20
\* the null pointer
NULL == 0
\* the "no block" value of current_block
NoBlock == -1
\* a byte of a new[] buffer that nothing has written yet
Garbage == -1

VARIABLES
    read_ahead,      \* constructor argument: readahead_thread is non-null
    ctor,            \* "path": Filesystem(wstring,bool); "file": Filesystem(IFile*,bool)
    dev,             \* "open" or "null" (openFile failed)
    has_error,
    bitmap,          \* set of the bit positions that are set in getBitmap()
    dev_pos,         \* file position of dev
    buffers,         \* Filesystem::buffers, the idle stack (sequence of buffer ids)
    nalloc,          \* buffers 1..nalloc have been allocated with new[]
    freed,           \* buffers that were delete[]d
    content,         \* content[b]: the BlockSize bytes of buffer b, for a buffer
                     \* that a read fills or the caller holds; Garbage stands
                     \* for a byte not written since the buffer was acquired
    held,            \* buffers the caller received from readBlock and still owns
    cons_pc,         \* position of the caller thread
    cons_block,      \* pBlock of the readBlock call in progress
    cons_buf,        \* buf of the readBlock call in progress
    rc,              \* readFromDev: bytes read so far
    tries,           \* readFromDev: tries
    ret,             \* result of the last finished readBlock call
    fs_pc,           \* "live", "d_wait" (destructor in waitFor), "closed"
    task_pc,         \* position of the readahead task
    task_block,      \* pBlock of the task's fs.readBlock call
    task_buf,        \* buf returned to the task by fs.readBlock
    read_blocks,     \* ReadaheadThread::read_blocks: block -> buffer
    current_block,
    do_stop,
    readahead_miss,
    rbs,             \* the readBlocks call of the caller: phase, i, the range
                     \* [first, last), the vector ret (out) and what memcpy
                     \* put into the destination buffers (dest)
    tested,          \* which bitmap tests were made so far: "index" for a block
                     \* index outside 0..TotalBlocks-1, "byte" for a byte
                     \* outside the bitmap
    calc_total,      \* calculateUsedSpace: getSize()/getBlocksize()
    calc_ret,        \* calculateUsedSpace: whether it returned, and what
    user             \* a second thread of the caller that calls getBuffer and
                     \* releaseBuffer itself: the call it is in (pc) and the
                     \* buffer of that call (buf)

fsvars == <<read_ahead, ctor, dev, has_error, bitmap, dev_pos>>
poolvars == <<buffers, nalloc, freed, content, held>>
consvars == <<cons_pc, cons_block, cons_buf, rc, tries, ret>>
ravars == <<task_pc, task_block, task_buf, read_blocks, current_block, do_stop,
            readahead_miss>>
calcvars == <<calc_total, calc_ret>>
vars == <<fsvars, poolvars, consvars, ravars, fs_pc, rbs, tested, calcvars, user>>

\* ------------------------------------------------------------ helpers
Min(a, b) == IF a < b THEN a ELSE b

\* the bitmap holds ceil(TotalBlocks/8) bytes
BitmapBytes == (TotalBlocks + 7) \div 8
BitmapBits == 8 * BitmapBytes

\* device size in bytes and the byte the device holds at an offset
DevSize == TotalBlocks * BlockSize
DevByte(off) == off
DevBlock(i) == [k \in 1..BlockSize |-> DevByte(i * BlockSize + k - 1)]
FreshContent == [k \in 1..BlockSize |-> Garbage]

\* bit positions the modelled bitmaps may have set: the first two blocks,
\* the last block, and the first padding bit when the last byte has one
BitChoices == {p \in {0, 1, TotalBlocks - 1, TotalBlocks} : p >= 0 /\ p < BitmapBits}

\* block indices the caller asks for: the blocks a modelled bitmap may mark
\* and the first index past the device
Requests == {i \in {0, 1, TotalBlocks - 1, TotalBlocks} : i >= 0}

\* pStartBlock of the readBlocks calls: with n = MaxRun the range covers the
\* blocks 0 and 1, each of which a modelled bitmap may mark or not
RunStarts == {0}

\* ------------------------------------------------------ bitmap test
\* the test written with >=0 in place of >0: true of every block
HasBit_NotNegative(pBlock) == {TRUE}

\* The outcomes of (bitmap[pBlock/8] & (1<<(pBlock%8)))>0.  A byte past the
\* bitmap's ceil(TotalBlocks/8) bytes is a read out of bounds: either value.
HasBit(pBlock) ==
    IF pBlock \div 8 \in 0..(BitmapBytes - 1)
    THEN {(8 * (pBlock \div 8) + (pBlock % 8)) \in bitmap}
    ELSE BOOLEAN

\* ------------------------------------------------------ buffer pool
\* releaseBuffer with buffers.size()<=max_idle_buffers in place of <
releaseBuffer_OffByOne(pool, buf) ==
    IF Len(pool.buffers) <= max_idle_buffers
    THEN [buffers |-> Append(pool.buffers, buf), freed |-> pool.freed]
    ELSE [buffers |-> pool.buffers,
          freed |-> IF buf = NULL THEN pool.freed ELSE pool.freed \cup {buf}]

\* Filesystem::releaseBuffer on the pool [buffers, freed]
releaseBuffer(pool, buf) ==
    IF Len(pool.buffers) < max_idle_buffers
    THEN [buffers |-> Append(pool.buffers, buf), freed |-> pool.freed]
    ELSE [buffers |-> pool.buffers,
          freed |-> IF buf = NULL THEN pool.freed ELSE pool.freed \cup {buf}]

\* Filesystem::getBuffer: the buffer returned, the stack left, the count of
\* allocated buffers
getBuffer(bufs, n) ==
    IF bufs # <<>>
    THEN [buf |-> bufs[Len(bufs)], buffers |-> SubSeq(bufs, 1, Len(bufs) - 1),
          nalloc |-> n]
    ELSE [buf |-> n + 1, buffers |-> bufs, nalloc |-> n + 1]

\* releaseBuffer applied to a sequence of buffers, first to last
RECURSIVE releaseAll(_, _)
releaseAll(pool, seq) ==
    IF seq = <<>> THEN pool
    ELSE releaseAll(releaseBuffer(pool, Head(seq)), Tail(seq))

\* ------------------------------------------------------ device reads
\* dev->Read(buf+off, want) at file position pos may return any count from 0
\* to the bytes asked for that the device still has
ReadCounts(pos, want) == 0..(IF pos >= DevSize THEN 0 ELSE Min(want, DevSize - pos))

\* the buffer after n bytes from file position pos were stored at offset off
WriteBuf(c, off, pos, n) ==
    [k \in 1..BlockSize |->
        IF k - 1 >= off /\ k - 1 < off + n THEN DevByte(pos + (k - 1 - off)) ELSE c[k]]

\* ------------------------------------------------- readFromDev
\* if(tries<0) after --tries
TriesExhausted(t) == t < 0

\* ------------------------------------------------------------- Init
\* The state after either constructor: the pool is empty, nothing is cached,
\* the task (if any) is queued in the thread pool and has not run yet.
\* no readBlocks call was made yet
NoReadBlocks == [phase |-> "none", first |-> 0, last |-> 0, i |-> 0,
                 out |-> <<>>, dest |-> <<>>]

\* calculateUsedSpace has not been called
NotCalculated == [done |-> FALSE, val |-> 0]

\* the second thread is in no call of the pool
NoPoolCall == [pc |-> "out", buf |-> NULL]

\* what the bitmap test of block pBlock (lines 293-296, 308-311) touches
\* outside the addressable blocks and outside the bitmap
TestKinds(pBlock) ==
    (IF pBlock \in 0..(TotalBlocks - 1) THEN {} ELSE {"index"})
    \cup (IF pBlock \div 8 \in 0..(BitmapBytes - 1) THEN {} ELSE {"byte"})

Init ==
    /\ read_ahead \in BOOLEAN
    /\ ctor \in {"path", "file"}
    /\ dev \in (IF ctor = "path" THEN {"open", "null"} ELSE {"open"})
    /\ has_error = (dev = "null")
    /\ bitmap \in SUBSET BitChoices
    /\ dev_pos = 0
    /\ buffers = <<>>
    /\ nalloc = 0
    /\ freed = {}
    /\ content = [b \in 1..MaxAlloc |-> FreshContent]
    /\ held = {}
    /\ cons_pc = "idle"
    /\ cons_block = NoBlock
    /\ cons_buf = NULL
    /\ rc = 0
    /\ tries = ReadTries
    /\ ret = [block |-> NoBlock, buf |-> NULL]
    /\ fs_pc = "live"
    /\ task_pc = IF read_ahead THEN "t_start" ELSE "none"
    /\ task_block = NoBlock
    /\ task_buf = NULL
    /\ read_blocks = [k \in {} |-> NULL]
    /\ current_block = NoBlock
    /\ do_stop = FALSE
    /\ readahead_miss = FALSE
    /\ rbs = NoReadBlocks
    /\ tested = {}
    /\ calc_total = TotalBlocks
    /\ calc_ret = NotCalculated
    /\ user = NoPoolCall

\* the caller is between two calls on a live Filesystem
CallerReady == fs_pc = "live" /\ cons_pc = "idle" /\ rbs.phase = "none"

\* the call in progress returns r for block i
Return(i, r) ==
    /\ ret' = [block |-> i, buf |-> r]
    /\ held' = IF r = NULL THEN held ELSE held \cup {r}
    /\ cons_pc' = "idle"
    /\ cons_block' = NoBlock
    /\ cons_buf' = NULL
    /\ rc' = 0
    /\ tries' = ReadTries

\* --------------------------------------- Filesystem::readBlock, direct
\* has_error after a failed seek or an exhausted read: the flag is kept
ErrorOnFailure_Kept(err) == err

\* has_error after a failed seek (line 324) or an exhausted read (line 331)
ErrorOnFailure(err) == TRUE

\* Filesystem::hasError
hasError == has_error

\* lines 320-328 with the first dev->Read of readFromDev (line 370)
ReadBlockDirect(i) ==
    IF dev = "null"
    THEN \* dev->Seek on a null IFile*
         /\ cons_pc' = "crashed"
         /\ cons_block' = i
         /\ UNCHANGED <<fsvars, poolvars, cons_buf, rc, tries, ret, ravars, fs_pc>>
    ELSE \E seek_ok \in BOOLEAN :
         IF ~seek_ok
         THEN /\ has_error' = ErrorOnFailure(has_error)
              /\ Return(i, NULL)
              /\ UNCHANGED <<read_ahead, ctor, dev, bitmap, dev_pos, buffers, nalloc,
                             freed, content, ravars, fs_pc>>
         ELSE /\ buffers # <<>> \/ nalloc < MaxAlloc
              /\ LET g == getBuffer(buffers, nalloc)
                 IN \E n \in ReadCounts(i * BlockSize, BlockSize) :
                      /\ buffers' = g.buffers
                      /\ nalloc' = g.nalloc
                      /\ content' = [content EXCEPT ![g.buf] =
                                        WriteBuf(FreshContent, 0, i * BlockSize, n)]
                      /\ dev_pos' = i * BlockSize + n
                      /\ cons_buf' = g.buf
                      /\ rc' = n
              /\ cons_block' = i
              /\ tries' = ReadTries
              /\ cons_pc' = "c_rfd"
              /\ UNCHANGED <<read_ahead, ctor, dev, has_error, bitmap, freed, held,
                             ret, ravars, fs_pc>>

\* Filesystem::readBlock(i) up to its first return or blocking point
ReadBlockCall(i) ==
    /\ tested' = tested \cup TestKinds(i)
    /\ \E has_bit \in HasBit(i) :
         IF ~has_bit
         THEN /\ Return(i, NULL)
              /\ UNCHANGED <<fsvars, buffers, nalloc, freed, content, ravars, fs_pc>>
         ELSE IF ~read_ahead
         THEN ReadBlockDirect(i)
         ELSE /\ cons_pc' = "c_gb_enter"
              /\ cons_block' = i
              /\ UNCHANGED <<fsvars, poolvars, cons_buf, rc, tries, ret, ravars, fs_pc>>

\* a readBlock(i) call of the caller
ReadBlock(i) ==
    /\ CallerReady
    /\ Cardinality(held) < MaxHeld
    /\ ReadBlockCall(i)
    /\ rbs' = NoReadBlocks
    /\ UNCHANGED <<calcvars, user>>

\* readFromDev, one pass of the while(rc<bsize) loop: lines 373-377
RfdRetry ==
    /\ cons_pc = "c_rfd"
    /\ rc < BlockSize
    /\ \E n \in ReadCounts(dev_pos, BlockSize - rc) :
         /\ content' = [content EXCEPT ![cons_buf] = WriteBuf(@, rc, dev_pos, n)]
         /\ dev_pos' = dev_pos + n
         /\ rc' = rc + n
    /\ tries' = tries - 1
    /\ cons_pc' = IF TriesExhausted(tries - 1) THEN "c_rfd_fail" ELSE "c_rfd"
    /\ UNCHANGED <<read_ahead, ctor, dev, has_error, bitmap, buffers, nalloc, freed,
                   held, cons_block, cons_buf, ret, ravars, fs_pc>>
    /\ UNCHANGED <<rbs, tested, calcvars, user>>

\* readFromDev returns true (line 383) and readBlock returns buf (line 335)
RfdSuccess ==
    /\ cons_pc = "c_rfd"
    /\ rc >= BlockSize
    /\ Return(cons_block, cons_buf)
    /\ UNCHANGED <<fsvars, buffers, nalloc, freed, content, ravars, fs_pc>>
    /\ UNCHANGED <<rbs, tested, calcvars, user>>

\* what readBlock does with buf when readFromDev failed: lines 329-333 return
\* without releasing it
FailedReadPool(pool, buf) == pool

\* readFromDev returns false (line 380); readBlock lines 329-333
ReadBlockFail ==
    /\ cons_pc = "c_rfd_fail"
    /\ has_error' = ErrorOnFailure(has_error)
    /\ LET p == FailedReadPool([buffers |-> buffers, freed |-> freed], cons_buf)
       IN /\ buffers' = p.buffers
          /\ freed' = p.freed
    /\ content' = [content EXCEPT ![cons_buf] = FreshContent]
    /\ Return(cons_block, NULL)
    /\ UNCHANGED <<read_ahead, ctor, dev, bitmap, dev_pos, nalloc, ravars, fs_pc>>
    /\ UNCHANGED <<rbs, tested, calcvars, user>>

\* the caller gives a buffer it received back: Filesystem::releaseBuffer
ReleaseBuffer(b) ==
    /\ CallerReady
    /\ b \in held
    /\ LET p == releaseBuffer([buffers |-> buffers, freed |-> freed], b)
       IN /\ buffers' = p.buffers
          /\ freed' = p.freed
    /\ held' = held \ {b}
    /\ content' = [content EXCEPT ![b] = FreshContent]
    /\ UNCHANGED <<fsvars, nalloc, consvars, ravars, fs_pc>>
    /\ UNCHANGED <<rbs, tested, calcvars, user>>

\* a hasBlock(i) call of the caller: lines 288-301; it changes nothing, its
\* result is HasBit(i)
HasBlock(i) ==
    /\ CallerReady
    /\ tested' = tested \cup TestKinds(i)
    /\ UNCHANGED <<fsvars, poolvars, consvars, ravars, fs_pc, rbs, calcvars, user>>

\* ------------------------------------------- Filesystem::readBlocks
\* readBlocks(start, n, buffers, buffer_offset) is entered: lines 346-351
ReadBlocks(start, n) ==
    /\ CallerReady
    /\ Cardinality(held) < MaxHeld
    /\ rbs' = [phase |-> "loop", first |-> start, last |-> start + n,
               i |-> start, out |-> <<>>, dest |-> <<>>]
    /\ UNCHANGED <<fsvars, poolvars, consvars, ravars, fs_pc, tested, calcvars, user>>

\* line 353: char* buf = readBlock(i), up to its first return or blocking
\* point
ReadBlocksCall ==
    /\ fs_pc = "live"
    /\ cons_pc = "idle"
    /\ rbs.phase = "loop"
    /\ rbs.i < rbs.last
    /\ ReadBlockCall(rbs.i)
    /\ rbs' = [rbs EXCEPT !.phase = "called"]
    /\ UNCHANGED <<calcvars, user>>

\* lines 354-362, readBlock has returned buf: a non-null buf is copied into
\* destination buffer currbuf, its index is pushed, and it is released; buf
\* goes out of scope
ReadBlocksStore ==
    /\ cons_pc = "idle"
    /\ rbs.phase = "called"
    /\ IF ret.buf # NULL
       THEN LET p == releaseBuffer([buffers |-> buffers, freed |-> freed],
                                   ret.buf)
            IN /\ rbs' = [rbs EXCEPT !.phase = "loop",
                                     !.i = @ + 1,
                                     !.dest = Append(@, content[ret.buf]),
                                     !.out = Append(@, rbs.i)]
               /\ buffers' = p.buffers
               /\ freed' = p.freed
               /\ held' = held \ {ret.buf}
               /\ content' = [content EXCEPT ![ret.buf] = FreshContent]
       ELSE /\ rbs' = [rbs EXCEPT !.phase = "loop", !.i = @ + 1]
            /\ UNCHANGED <<buffers, freed, held, content>>
    /\ ret' = [block |-> NoBlock, buf |-> NULL]
    /\ UNCHANGED <<fsvars, nalloc, cons_pc, cons_block, cons_buf, rc, tries, ravars,
                   fs_pc, tested, calcvars, user>>

\* lines 351, 365: the loop is over and readBlocks returns ret
ReadBlocksReturn ==
    /\ cons_pc = "idle"
    /\ rbs.phase = "loop"
    /\ rbs.i >= rbs.last
    /\ rbs' = [rbs EXCEPT !.phase = "none"]
    /\ UNCHANGED <<fsvars, poolvars, consvars, ravars, fs_pc, tested, calcvars, user>>

\* ------------------------------------------------ ReadaheadThread
\* ReadaheadThread::mutex is held across steps in the scan loop and, where
\* getBlock is followed step by step, in its clearUnusedReadahead call
MutexFree == task_pc \notin {"t_scan", "t_clear", "t_release"}

\* ReadaheadThread::next_used_block: the values it may return (one, unless it
\* evaluates hasBlock past the bitmap)
RECURSIVE next_used_block(_)
next_used_block(pBlock) ==
    IF pBlock < TotalBlocks
    THEN LET q == pBlock + 1
         IN (IF TRUE \in HasBit(q) THEN {q} ELSE {})
            \cup (IF FALSE \in HasBit(q) THEN next_used_block(q) ELSE {})
    ELSE {NoBlock}

\* the tests next_used_block(pBlock) makes on its way to the result r: it
\* tests pBlock+1 up to r, and up to TotalBlocks when it finds nothing
ScanTests(pBlock, r) ==
    IF pBlock < TotalBlocks /\ r \in {NoBlock, TotalBlocks}
    THEN TestKinds(TotalBlocks) ELSE {}

\* the keys of a map in ascending order, as std::map iterates them
RECURSIVE SortedKeys(_)
SortedKeys(S) ==
    IF S = {} THEN <<>>
    ELSE LET m == CHOOSE x \in S : \A y \in S : x <= y
         IN <<m>> \o SortedKeys(S \ {m})

\* a map without some of its keys
Without(rb, K) == [k \in (DOMAIN rb) \ K |-> rb[k]]

\* ReadaheadThread::clearUnusedReadahead: the map and the pool it leaves
clearUnusedReadahead(rb, pool, pBlock) ==
    LET old == {k \in DOMAIN rb : k < pBlock}
        ks == SortedKeys(old)
    IN [read_blocks |-> Without(rb, old),
        pool |-> releaseAll(pool, [j \in 1..Len(ks) |-> rb[ks[j]]])]

\* getBlock line 155: the value the function's ret holds after the entry was
\* found.  "char* ret = it->second;" declares a new ret inside the block, so
\* the ret that the loop tests and the function returns stays NULL.
FoundRet(buf) == NULL

\* The while(ret==NULL) loop of getBlock from its head to the point where it
\* returns or waits, on the map rb: the map it leaves and the value of ret
\* (NULL: the thread recorded a miss and waits on read_block_cond).
RECURSIVE getBlockLoop(_, _)
getBlockLoop(rb, block) ==
    IF block \in DOMAIN rb
    THEN LET r == FoundRet(rb[block])
         IN IF r # NULL
            THEN [read_blocks |-> Without(rb, {block}), ret |-> r]
            ELSE getBlockLoop(Without(rb, {block}), block)
    ELSE [read_blocks |-> rb, ret |-> NULL]

\* notify_all on start_readahead_cond: only the task waits on it
NotifyStart(pc) ==
    IF pc = "t_bp_wait" THEN "t_bp_woken"
    ELSE IF pc = "t_idle_wait" THEN "t_idle_woken"
    ELSE pc

\* notify_all on read_block_cond
NotifyRead(pc) ==
    IF pc = "c_gb_wait" THEN "c_gb_woken"
    ELSE IF pc = "t_gb_wait" THEN "t_gb_woken"
    ELSE pc

\* operator(), lines 101-106: the idle wait and the check after it
IdlePc(stop, cb) ==
    IF cb = NoBlock THEN "t_idle_wait"
    ELSE IF stop THEN "t_done"
    ELSE "t_scan"

\* operator(), lines 90-99: one test of the inner backpressure loop
BackpressurePc(stop, size, miss, cb) ==
    IF size > readahead_low_level_blocks /\ ~miss THEN "t_bp_wait"
    ELSE IdlePc(stop, cb)

\* the head of the loop with > in place of >= in line 88
TopPc_Above(stop, size, miss, cb) ==
    IF stop THEN "t_done"
    ELSE IF size > readahead_num_blocks THEN BackpressurePc(stop, size, miss, cb)
    ELSE IdlePc(stop, cb)

\* operator(), lines 86-99: the head of the task's loop
TopPc(stop, size, miss, cb) ==
    IF stop THEN "t_done"
    ELSE IF size >= readahead_num_blocks THEN BackpressurePc(stop, size, miss, cb)
    ELSE IdlePc(stop, cb)

CacheSize(rb) == Cardinality(DOMAIN rb)

\* operator(), lines 93-99: the task wakes in the backpressure wait
BackpressureWokenPc(stop, size, miss, cb) ==
    IF stop THEN "t_done" ELSE BackpressurePc(stop, size, miss, cb)

\* ReadaheadThread::getBlock under the mutex, from its entry (first: with
\* clearUnusedReadahead) or from a wake-up in line 162, to its return or wait
getBlock(rb, pool, block, first) ==
    LET c == IF first THEN clearUnusedReadahead(rb, pool, block)
             ELSE [read_blocks |-> rb, pool |-> pool]
        l == getBlockLoop(c.read_blocks, block)
    IN [read_blocks |-> l.read_blocks, pool |-> c.pool, ret |-> l.ret]

\* the caller's getBlock call: entry (first) or wake-up
ConsGetBlock(first) ==
    /\ MutexFree
    /\ LET g == getBlock(read_blocks, [buffers |-> buffers, freed |-> freed],
                         cons_block, first)
       IN /\ buffers' = g.pool.buffers
          /\ freed' = g.pool.freed
          /\ read_blocks' = g.read_blocks
          /\ IF g.ret # NULL
             THEN /\ Return(cons_block, g.ret)
                  /\ UNCHANGED <<task_pc, current_block, readahead_miss>>
             ELSE \* readaheadFromInt(block); readahead_miss=true; wait
                  /\ current_block' = cons_block
                  /\ readahead_miss' = TRUE
                  /\ task_pc' = NotifyStart(task_pc)
                  /\ cons_pc' = "c_gb_wait"
                  /\ UNCHANGED <<held, cons_block, cons_buf, rc, tries, ret>>
    /\ UNCHANGED <<fsvars, nalloc, content, task_block, task_buf, do_stop, fs_pc>>
    /\ UNCHANGED <<rbs, tested, calcvars, user>>

ConsGetBlockEnter == cons_pc = "c_gb_enter" /\ ConsGetBlock(TRUE)

ConsGetBlockWake == cons_pc = "c_gb_woken" /\ ConsGetBlock(FALSE)

\* the task takes the mutex for the first time: line 85 and the loop head
TaskStart ==
    /\ task_pc = "t_start"
    /\ task_pc' = TopPc(do_stop, CacheSize(read_blocks), readahead_miss, current_block)
    /\ UNCHANGED <<fsvars, poolvars, consvars, task_block, task_buf, read_blocks,
                   current_block, do_stop, readahead_miss, fs_pc>>
    /\ UNCHANGED <<rbs, tested, calcvars, user>>

\* the task returns from a wait on start_readahead_cond (line 93 or 103)
TaskWake ==
    /\ task_pc \in {"t_bp_woken", "t_idle_woken"}
    /\ task_pc' = IF task_pc = "t_bp_woken"
                  THEN BackpressureWokenPc(do_stop, CacheSize(read_blocks),
                                           readahead_miss, current_block)
                  ELSE IdlePc(do_stop, current_block)
    /\ UNCHANGED <<fsvars, poolvars, consvars, task_block, task_buf, read_blocks,
                   current_block, do_stop, readahead_miss, fs_pc>>
    /\ UNCHANGED <<rbs, tested, calcvars, user>>

\* lines 109-116, "it" tested as not equal to end(): "it" is never assigned,
\* so the test of the uninitialized iterator may come out either way
TaskScanAdvance ==
    /\ task_pc = "t_scan"
    /\ \E nb \in next_used_block(current_block) :
         /\ current_block' = nb
         /\ tested' = tested \cup ScanTests(current_block, nb)
    /\ UNCHANGED <<fsvars, poolvars, consvars, task_pc, task_block, task_buf,
                   read_blocks, do_stop, readahead_miss, fs_pc>>
    /\ UNCHANGED <<rbs, calcvars, user>>

\* lines 116-120: the scan loop ends; with a block to fetch the mutex is
\* released, otherwise the loop head follows
TaskScanExit ==
    /\ task_pc = "t_scan"
    /\ task_pc' = IF current_block # NoBlock THEN "t_read"
                  ELSE TopPc(do_stop, CacheSize(read_blocks), readahead_miss,
                             current_block)
    /\ UNCHANGED <<fsvars, poolvars, consvars, task_block, task_buf, read_blocks,
                   current_block, do_stop, readahead_miss, fs_pc>>
    /\ UNCHANGED <<rbs, tested, calcvars, user>>

\* line 121, fs.readBlock(current_block) called by the task without the
\* mutex: the bitmap test of readBlock, then (readahead_thread is non-null)
\* the call of getBlock
TaskReadBlock ==
    /\ task_pc = "t_read"
    /\ task_block' = current_block
    /\ \E has_bit \in HasBit(current_block) :
         IF ~has_bit
         THEN task_buf' = NULL /\ task_pc' = "t_relock"
         ELSE task_buf' = task_buf /\ task_pc' = "t_gb_enter"
    /\ UNCHANGED <<fsvars, poolvars, consvars, read_blocks, current_block, do_stop,
                   readahead_miss, fs_pc>>
    /\ tested' = tested \cup TestKinds(current_block)
    /\ UNCHANGED <<rbs, calcvars, user>>

\* the task's own getBlock call with the mutex held: from its entry (first)
\* or from line 149 to its return or wait
TaskGetBlockBody(first) ==
    /\ LET g == getBlock(read_blocks, [buffers |-> buffers, freed |-> freed],
                         task_block, first)
       IN /\ buffers' = g.pool.buffers
          /\ freed' = g.pool.freed
          /\ read_blocks' = g.read_blocks
          /\ IF g.ret # NULL
             THEN /\ task_buf' = g.ret
                  /\ task_pc' = "t_relock"
                  /\ UNCHANGED <<current_block, readahead_miss>>
             ELSE /\ current_block' = task_block
                  /\ readahead_miss' = TRUE
                  /\ task_pc' = "t_gb_wait"
                  /\ task_buf' = task_buf
    /\ UNCHANGED <<fsvars, nalloc, content, held, consvars, task_block, do_stop, fs_pc>>
    /\ UNCHANGED <<rbs, tested, calcvars, user>>

\* the task's own getBlock call: entry (first) or wake-up
TaskGetBlock(first) == MutexFree /\ TaskGetBlockBody(first)

TaskGetBlockEnter == task_pc = "t_gb_enter" /\ TaskGetBlock(TRUE)

TaskGetBlockWake == task_pc = "t_gb_woken" /\ TaskGetBlock(FALSE)

\* line 123: the key under which the task stores the buffer it fetched for
\* block fetched
InsertKey(cb, fetched) == cb

\* lines 122-130 and the loop head
TaskInsert ==
    /\ task_pc = "t_relock"
    /\ MutexFree
    /\ LET key == InsertKey(current_block, task_block)
           rb == [k \in (DOMAIN read_blocks) \cup {key} |->
                     IF k = key THEN task_buf ELSE read_blocks[k]]
       IN /\ read_blocks' = rb
          /\ task_pc' = TopPc(do_stop, CacheSize(rb), FALSE, current_block)
    /\ cons_pc' = IF readahead_miss THEN NotifyRead(cons_pc) ELSE cons_pc
    /\ readahead_miss' = FALSE
    /\ task_buf' = NULL
    /\ UNCHANGED <<fsvars, poolvars, cons_block, cons_buf, rc, tries, ret, task_block,
                   current_block, do_stop, fs_pc>>
    /\ UNCHANGED <<rbs, tested, calcvars, user>>

\* a wait on a condition returns without a notify
SpuriousWakeup ==
    /\ \/ /\ cons_pc = "c_gb_wait"
          /\ cons_pc' = "c_gb_woken"
          /\ task_pc' = task_pc
       \/ /\ task_pc \in {"t_bp_wait", "t_idle_wait", "t_gb_wait"}
          /\ task_pc' = (IF task_pc = "t_gb_wait" THEN NotifyRead(task_pc)
                         ELSE NotifyStart(task_pc))
          /\ cons_pc' = cons_pc
    /\ UNCHANGED <<fsvars, poolvars, cons_block, cons_buf, rc, tries, ret, task_block,
                   task_buf, read_blocks, current_block, do_stop, readahead_miss, fs_pc>>
    /\ UNCHANGED <<rbs, tested, calcvars, user>>

\* ------------------------------------------- Filesystem::~Filesystem
\* the destructor without the waitFor call
WaitForDone_NoWait(pc) == TRUE

\* Server->getThreadPool()->waitFor(readahead_thread_ticket) returns
WaitForDone(pc) == pc = "t_done"

\* ~ReadaheadThread (lines 67-71), then lines 277-285: the cached buffers go
\* to the pool, the device is destroyed if owned, the pooled buffers are freed
DtorTail(rb) ==
    /\ LET ks == SortedKeys(DOMAIN rb)
           p == releaseAll([buffers |-> buffers, freed |-> freed],
                           [j \in 1..Len(ks) |-> rb[ks[j]]])
           gone == p.freed \cup ({p.buffers[j] : j \in 1..Len(p.buffers)} \ {NULL})
       IN /\ freed' = gone
          /\ content' = [b \in 1..MaxAlloc |->
                            IF b \in gone THEN FreshContent ELSE content[b]]
    /\ buffers' = <<>>
    /\ read_blocks' = [k \in {} |-> NULL]
    /\ dev' = IF ctor = "path" /\ dev = "open" THEN "destroyed" ELSE dev
    /\ fs_pc' = "closed"

\* the destructor starts: with a readahead thread, stop() (lines 171-173) and
\* then waitFor; without one, straight to the end
DtorBegin ==
    /\ CallerReady
    /\ IF read_ahead
       THEN /\ MutexFree
            /\ do_stop' = TRUE
            /\ task_pc' = NotifyStart(task_pc)
            /\ fs_pc' = "d_wait"
            /\ UNCHANGED <<fsvars, poolvars, read_blocks>>
       ELSE /\ DtorTail(read_blocks)
            /\ UNCHANGED <<read_ahead, ctor, has_error, bitmap, dev_pos, nalloc, held,
                           do_stop, task_pc>>
    /\ UNCHANGED <<consvars, task_block, task_buf, current_block, readahead_miss>>
    /\ UNCHANGED <<rbs, tested, calcvars, user>>

\* waitFor returns and the destructor runs to its end
DtorJoin ==
    /\ fs_pc = "d_wait"
    /\ WaitForDone(task_pc)
    /\ DtorTail(read_blocks)
    /\ UNCHANGED <<read_ahead, ctor, has_error, bitmap, dev_pos, nalloc, held,
                   consvars, task_pc, task_block, task_buf, current_block, do_stop,
                   readahead_miss>>
    /\ UNCHANGED <<rbs, tested, calcvars, user>>

Next ==
    \/ \E i \in Requests : ReadBlock(i)
    \/ RfdRetry
    \/ RfdSuccess
    \/ ReadBlockFail
    \/ \E b \in held : ReleaseBuffer(b)
    \/ \E i \in Requests : HasBlock(i)
    \/ \E start \in RunStarts : ReadBlocks(start, MaxRun)
    \/ ReadBlocksCall
    \/ ReadBlocksStore
    \/ ReadBlocksReturn
    \/ ConsGetBlockEnter
    \/ ConsGetBlockWake
    \/ TaskStart
    \/ TaskWake
    \/ TaskScanAdvance
    \/ TaskScanExit
    \/ TaskReadBlock
    \/ TaskGetBlockEnter
    \/ TaskGetBlockWake
    \/ TaskInsert
    \/ SpuriousWakeup
    \/ DtorBegin
    \/ DtorJoin

Spec == Init /\ [][Next]_vars

\* Both threads keep running while they can: every step of a call in progress
\* and of the task is taken eventually.  The caller's decisions to call, the
\* uninitialized test coming out "not equal" and wake-ups without a notify are
\* not forced.
Fairness ==
    /\ WF_vars(RfdRetry) /\ WF_vars(RfdSuccess) /\ WF_vars(ReadBlockFail)
    /\ WF_vars(ReadBlocksCall) /\ WF_vars(ReadBlocksStore)
    /\ WF_vars(ReadBlocksReturn)
    /\ WF_vars(ConsGetBlockEnter) /\ WF_vars(ConsGetBlockWake)
    /\ WF_vars(TaskStart) /\ WF_vars(TaskWake) /\ WF_vars(TaskScanExit)
    /\ WF_vars(TaskReadBlock) /\ WF_vars(TaskGetBlockEnter)
    /\ WF_vars(TaskGetBlockWake) /\ WF_vars(TaskInsert) /\ WF_vars(DtorJoin)

FairSpec == Spec /\ Fairness

\* ===================================================== claims C1..C10

\* an addressable block whose bitmap bit is set / clear
Occupied(i) == i \in 0..(TotalBlocks - 1) /\ i \in bitmap
Absent(i) == i \in 0..(TotalBlocks - 1) /\ i \notin bitmap

\* the last call returned a buffer that holds the bytes of the block asked for
ReturnedBlockData ==
    /\ cons_pc = "idle"
    /\ ret.buf # NULL
    /\ content[ret.buf] = DevBlock(ret.block)

\* C1 (as claimed): a readBlock call for an occupied, addressable block returns
\* a buffer with the block's bytes also when the Filesystem was built with
\* read_ahead=true, as the direct path does.  With read_ahead the call goes
\* to getBlock and no device read can fail, because none is made.
C1_ReadaheadReturnsBlock ==
    (read_ahead /\ cons_pc = "c_gb_enter" /\ Occupied(cons_block))
        ~> ReturnedBlockData

\* C2 (as claimed): with readahead and a fair task, a getBlock call for an
\* occupied, addressable block eventually returns, and returns a non-null
\* buffer.
C2_GetBlockReturns ==
    (cons_pc \in {"c_gb_enter", "c_gb_wait", "c_gb_woken"} /\ Occupied(cons_block))
        ~> (cons_pc = "idle" /\ ret.buf # NULL)

\* C3 (as claimed): once stop() has set do_stop, the task eventually leaves its
\* loop, whatever it was doing.
C3_StopEndsTask == do_stop ~> (task_pc = "t_done")

\* buffers that were allocated and are neither freed, pooled, cached, in a
\* read in progress, nor owned by the caller
InPool == {buffers[j] : j \in 1..Len(buffers)}
InCache == {read_blocks[k] : k \in DOMAIN read_blocks}
Leaked == (1..nalloc) \ (freed \cup InPool \cup InCache \cup held \cup {cons_buf, task_buf})

C5_AbsentReturnsNull ==
    [][\A i \in Requests :
         (Absent(i) /\ ReadBlock(i)) =>
            /\ ret' = [block |-> i, buf |-> NULL]
            /\ cons_pc' = "idle"
            /\ UNCHANGED <<fsvars, poolvars, ravars, fs_pc>>]_vars

\* C5 witness: with readahead, a call for a clear block has returned NULL
C5_Witness ==
    /\ read_ahead
    /\ cons_pc = "idle"
    /\ Absent(ret.block)
    /\ ret.buf = NULL
    /\ ~has_error

PoolMaxHeld == 3

\* idle-stack sizes PoolSpec starts from: empty, one below the limit, at the
\* limit (reached by releasing that many buffers one after the other)
PoolStart == {0, max_idle_buffers - 1, max_idle_buffers}

\* a Filesystem without readahead whose idle stack holds buffers 1..n, the
\* caller holding h more
PoolInit ==
    /\ read_ahead = FALSE
    /\ ctor = "file"
    /\ dev = "open"
    /\ has_error = FALSE
    /\ bitmap = {}
    /\ dev_pos = 0
    /\ \E n \in PoolStart, h \in 0..1 :
         /\ buffers = [j \in 1..n |-> j]
         /\ nalloc = n + h
         /\ held = (n + 1)..(n + h)
    /\ freed = {}
    /\ content = [b \in 1..MaxAlloc |-> FreshContent]
    /\ cons_pc = "idle"
    /\ cons_block = NoBlock
    /\ cons_buf = NULL
    /\ rc = 0
    /\ tries = ReadTries
    /\ ret = [block |-> NoBlock, buf |-> NULL]
    /\ fs_pc = "live"
    /\ task_pc = "none"
    /\ task_block = NoBlock
    /\ task_buf = NULL
    /\ read_blocks = [k \in {} |-> NULL]
    /\ current_block = NoBlock
    /\ do_stop = FALSE
    /\ readahead_miss = FALSE
    /\ rbs = NoReadBlocks
    /\ tested = {}
    /\ calc_total = TotalBlocks
    /\ calc_ret = NotCalculated
    /\ user = NoPoolCall

\* a call of Filesystem::getBuffer
PoolGetBuffer ==
    /\ Cardinality(held) < PoolMaxHeld
    /\ LET g == getBuffer(buffers, nalloc)
       IN /\ buffers' = g.buffers
          /\ nalloc' = g.nalloc
          /\ held' = held \cup {g.buf}
    /\ UNCHANGED <<fsvars, freed, content, consvars, ravars, fs_pc>>
    /\ UNCHANGED <<rbs, tested, calcvars, user>>

\* a call of Filesystem::releaseBuffer
PoolReleaseBuffer(b) ==
    /\ b \in held
    /\ LET p == releaseBuffer([buffers |-> buffers, freed |-> freed], b)
       IN /\ buffers' = p.buffers
          /\ freed' = p.freed
    /\ held' = held \ {b}
    /\ UNCHANGED <<fsvars, nalloc, content, consvars, ravars, fs_pc>>
    /\ UNCHANGED <<rbs, tested, calcvars, user>>

PoolNext ==
    \/ PoolGetBuffer
    \/ \E b \in held : PoolReleaseBuffer(b)

PoolSpec == PoolInit /\ [][PoolNext]_vars

\* C7: the idle stack never holds more than max_idle_buffers buffers; a
\* release while it holds max_idle_buffers frees the buffer and leaves the
\* stack as it was; a getBuffer on a non-empty stack hands out the buffer on
\* top of the stack (the one released last among the idle ones) and leaves
\* the stack one shorter.
C7_PoolBound ==
    /\ [](Len(buffers) <= max_idle_buffers)
    /\ [][/\ \A b \in held :
               (held' = held \ {b} /\ Len(buffers) = max_idle_buffers)
                   => (buffers' = buffers /\ b \in freed')
          /\ \A b \in held' \ held :
               buffers # <<>>
                   => /\ b = buffers[Len(buffers)]
                      /\ buffers' = SubSeq(buffers, 1, Len(buffers) - 1)
                      /\ nalloc' = nalloc]_vars

\* C7 witness: a buffer was freed by a release on a full stack
C7_Witness == Len(buffers) = max_idle_buffers /\ freed # {}

\* C8 (as claimed): readFromDev makes at most ReadTries retry reads, and it
\* fails only with the block still incomplete.
C8_AtMostTwentyRetries ==
    cons_pc \in {"c_rfd", "c_rfd_fail"} =>
        /\ ReadTries - tries <= ReadTries
        /\ cons_pc = "c_rfd_fail" => rc < BlockSize

\* C9 (as claimed): when readBlock gives up on a read it sets has_error,
\* returns NULL, and the buffer it had acquired is back in the pool (or freed).
C9_FailedReadReleasesBuffer ==
    [][(cons_pc = "c_rfd_fail" /\ cons_pc' = "idle") =>
          /\ has_error'
          /\ ret'.buf = NULL
          /\ cons_buf \in (InPool' \cup freed')]_vars

\* C10 (as claimed): when fs.readBlock hands the task no buffer for the block
\* the caller waits for, the caller's getBlock call ends: it returns no data
\* and has_error is set.
C10_FailedFetchEndsCall ==
    (/\ task_pc = "t_relock"
     /\ task_buf = NULL
     /\ cons_pc = "c_gb_wait"
     /\ cons_block = current_block
     /\ readahead_miss)
        ~> (cons_pc = "idle" /\ ret.buf = NULL /\ has_error)

\* ===================================================== claims C11..C20

\* C11 (as claimed): a request for an occupied block l made while the cache
\* only holds entries of blocks above l (a backward seek) is served through
\* the miss path: the task fetches l and the call returns its data.
C11_BackwardSeekServed ==
    (/\ cons_pc = "c_gb_wait"
     /\ readahead_miss
     /\ Occupied(cons_block)
     /\ DOMAIN read_blocks # {}
     /\ \A k \in DOMAIN read_blocks : k > cons_block)
        ~> ReturnedBlockData

\* C12: has_error is sticky.  hasError() is true at construction exactly when
\* the open failed; it becomes true on a failed seek (a direct readBlock of an
\* occupied block that returns NULL at once) and on an exhausted read; it
\* becomes true on nothing else; and once true it stays true.
C12_ErrorSticky ==
    /\ hasError <=> (dev = "null")
    /\ [][/\ hasError => hasError'
          /\ (/\ ~read_ahead
              /\ cons_pc = "idle" /\ cons_pc' = "idle"
              /\ ret' # ret /\ ret'.buf = NULL /\ Occupied(ret'.block))
                => hasError'
          /\ (cons_pc = "c_rfd_fail" /\ cons_pc' = "idle") => hasError'
          /\ (~hasError /\ hasError') =>
                \/ cons_pc = "c_rfd_fail"
                \/ cons_pc = "idle" /\ ~read_ahead /\ ret'.buf = NULL]_vars

\* C12 witness: a call returned a block's data on a Filesystem whose open
\* succeeded and whose flag was set by an earlier failure
C12_Witness == hasError /\ dev = "open" /\ ReturnedBlockData

\* ------------------------------------------- calculateUsedSpace alone
\* the largest block count calculateUsedSpace is applied to
MaxCalcBlocks == 10

\* the bit positions UsedSpec draws bitmaps from, for a device of n blocks:
\* the even positions of the first bytes, both sides of the last block, and
\* the last padding bit
CalcBits(n) ==
    {p \in {0, 2, 4, 6, 8, n - 1, n, 8 * ((n + 7) \div 8) - 1} :
        p >= 0 /\ p < 8 * ((n + 7) \div 8)}

\* line 401 evaluated one position late
PastLastBlock_OneLate(blocknum, blocks1) == blocknum > blocks1

\* line 401: if(blocknum>=blocks1) break;
PastLastBlock(blocknum, blocks1) == blocknum >= blocks1

\* lines 399-408, the for loop over the bits of byte number byte, from bit i
RECURSIVE UsedInByte(_, _, _, _, _, _)
UsedInByte(bm, blocks1, byte, i, blocknum, used_blocks) ==
    IF i >= 8 \/ PastLastBlock(blocknum, blocks1)
    THEN [blocknum |-> blocknum, used_blocks |-> used_blocks]
    ELSE UsedInByte(bm, blocks1, byte, i + 1, blocknum + 1,
                    IF (8 * byte + i) \in bm THEN used_blocks + 1
                    ELSE used_blocks)

\* lines 396-410, the while loop over the bitmap bytes, from byte number byte
RECURSIVE UsedFromByte(_, _, _, _, _, _)
UsedFromByte(bm, blocks1, tadd, byte, blocknum, used_blocks) ==
    IF byte = tadd THEN used_blocks
    ELSE LET r == UsedInByte(bm, blocks1, byte, 0, blocknum, used_blocks)
         IN UsedFromByte(bm, blocks1, tadd, byte + 1, r.blocknum, r.used_blocks)

\* Filesystem::calculateUsedSpace on bitmap bm of a device of blocks1 blocks
calculateUsedSpace(bm, blocks1) ==
    LET tadd == (blocks1 \div 8) + (IF blocks1 % 8 > 0 THEN 1 ELSE 0)
    IN UsedFromByte(bm, blocks1, tadd, 0, 0, 0) * BlockSize

\* a Filesystem of 0..MaxCalcBlocks blocks with any bitmap over CalcBits,
\* padding bits included
UsedInit ==
    /\ read_ahead = FALSE
    /\ ctor = "file"
    /\ dev = "open"
    /\ has_error = FALSE
    /\ calc_total \in 0..MaxCalcBlocks
    /\ bitmap \in SUBSET CalcBits(calc_total)
    /\ calc_ret = NotCalculated
    /\ user = NoPoolCall
    /\ dev_pos = 0
    /\ buffers = <<>>
    /\ nalloc = 0
    /\ freed = {}
    /\ content = [b \in 1..MaxAlloc |-> FreshContent]
    /\ held = {}
    /\ cons_pc = "idle"
    /\ cons_block = NoBlock
    /\ cons_buf = NULL
    /\ rc = 0
    /\ tries = ReadTries
    /\ ret = [block |-> NoBlock, buf |-> NULL]
    /\ fs_pc = "live"
    /\ task_pc = "none"
    /\ task_block = NoBlock
    /\ task_buf = NULL
    /\ read_blocks = [k \in {} |-> NULL]
    /\ current_block = NoBlock
    /\ do_stop = FALSE
    /\ readahead_miss = FALSE
    /\ rbs = NoReadBlocks
    /\ tested = {}

\* a call of Filesystem::calculateUsedSpace
CalculateUsedSpace ==
    /\ CallerReady
    /\ calc_ret' = [done |-> TRUE, val |-> calculateUsedSpace(bitmap, calc_total)]
    /\ UNCHANGED <<fsvars, poolvars, consvars, ravars, fs_pc, rbs, tested,
                   calc_total, user>>

UsedNext == CalculateUsedSpace

UsedSpec == UsedInit /\ [][UsedNext]_vars

\* C13: calculateUsedSpace returns BlockSize times the number of bits set at
\* the positions 0..totalBlocks-1; set padding bits do not count.
C13_UsedSpace ==
    calc_ret.done =>
        calc_ret.val = BlockSize * Cardinality({p \in bitmap : p < calc_total})

\* C13 witness: the call returned for a device whose last bitmap byte has
\* padding bits, with a used block and a set padding bit
C13_Witness ==
    /\ calc_ret.done
    /\ calc_total % 8 # 0
    /\ \E p \in bitmap : p < calc_total
    /\ \E p \in bitmap : p >= calc_total

\* the vector readBlocks has to return for its range: the occupied blocks of
\* [first, last) in ascending order
OccupiedRun(first, last) == SortedKeys({i \in first..(last - 1) : Occupied(i)})

\* the last readBlocks call returned the occupied blocks of its range, the
\* k-th of them copied into destination buffer k
ReadBlocksResult ==
    /\ rbs.phase = "none"
    /\ rbs.last > rbs.first
    /\ rbs.out = OccupiedRun(rbs.first, rbs.last)
    /\ Len(rbs.dest) = Len(rbs.out)
    /\ \A k \in 1..Len(rbs.out) : rbs.dest[k] = DevBlock(rbs.out[k])

\* C14 (as claimed): a readBlocks call over a range of addressable blocks
\* returns, unless device I/O fails, and what it returns is the occupied
\* blocks of the range in ascending order, block k in destination buffer k.
C14_ReadBlocksReturns ==
    (rbs.phase = "loop" /\ rbs.last <= TotalBlocks)
        ~> (ReadBlocksResult \/ hasError)

\* what holds of readBlocks: a call that returned without an I/O failure
\* returned the right blocks (with read_ahead only ranges without an
\* occupied block return)
ReadBlocksReturnedRight ==
    (rbs.phase = "none" /\ rbs.last > rbs.first /\ rbs.last <= TotalBlocks
        /\ ~hasError) => ReadBlocksResult

\* what holds of readBlocks: the buffer a readBlock call handed it is in the
\* idle stack or freed, and not with the caller, when the loop goes on
ReadBlocksReleases ==
    [][(rbs.phase = "called" /\ rbs'.phase = "loop" /\ ret.buf # NULL) =>
          (ret.buf \in (InPool' \cup freed') /\ ret.buf \notin held')]_vars

\* a returned readBlocks call that skipped a block and copied another
ReadBlocksSkipped ==
    /\ ReadBlocksResult
    /\ Len(rbs.out) = 1
    /\ rbs.last - rbs.first > 1
    /\ ~hasError

\* C15 (as claimed): hasBlock and readBlock called with a block index outside
\* 0..totalBlocks-1 answer false, respectively end at once with the null
\* result, and do not read a bitmap byte outside the bitmap.
C15_OutOfRangeRejected ==
    [][\A i \in Requests \ (0..(TotalBlocks - 1)) :
          /\ HasBlock(i) =>
                (HasBit(i) = {FALSE} /\ "byte" \notin (tested' \ tested))
          /\ ReadBlock(i) =>
                /\ cons_pc' = "idle"
                /\ ret' = [block |-> i, buf |-> NULL]
                /\ "byte" \notin (tested' \ tested)]_vars

\* C16 (as claimed): the buffer the task fetched for block task_block enters
\* the cache under the key task_block, whatever current_block has become
\* while the task read without the mutex, and no other entry changes.
C16_InsertedUnderBlockRead ==
    [][(task_pc = "t_relock" /\ task_pc' # "t_relock") =>
          /\ DOMAIN read_blocks' = (DOMAIN read_blocks) \cup {task_block}
          /\ read_blocks'[task_block] = task_buf
          /\ \A k \in (DOMAIN read_blocks) \ {task_block} :
                read_blocks'[k] = read_blocks[k]]_vars

\* C17 (as claimed): the task's fetch of an occupied block is a seek and
\* read on the device; the task is never inside getBlock and never waits on
\* read_block_cond.
C17_TaskNeverInGetBlock ==
    Occupied(task_block) =>
        task_pc \notin {"t_gb_enter", "t_gb_wait", "t_gb_woken"}

\* ------------------------------------ the head of the task's loop alone
\* values of read_blocks.size() the loop head is applied to: both sides of
\* the low level and of the limit
CacheSizes ==
    {0, readahead_low_level_blocks, readahead_low_level_blocks + 1,
     readahead_num_blocks - 1, readahead_num_blocks}

\* The loop head (lines 86-106) is a function of do_stop, read_blocks.size(),
\* readahead_miss and current_block.  BackpressureSpec applies it to every
\* combination of these inputs, with the task at the top of its loop or
\* returning from the wait of line 93.  (In whole-program runs the cache
\* never grows beyond one entry, so Spec does not reach these sizes.)
BackpressureInit ==
    /\ read_ahead = TRUE
    /\ ctor = "file"
    /\ dev = "open"
    /\ has_error = FALSE
    /\ bitmap = {}
    /\ dev_pos = 0
    /\ buffers = <<>>
    /\ nalloc = 0
    /\ freed = {}
    /\ content = [b \in 1..MaxAlloc |-> FreshContent]
    /\ held = {}
    /\ cons_pc = "idle"
    /\ cons_block = NoBlock
    /\ cons_buf = NULL
    /\ rc = 0
    /\ tries = ReadTries
    /\ ret = [block |-> NoBlock, buf |-> NULL]
    /\ fs_pc = "live"
    /\ task_pc \in {"t_start", "t_bp_woken"}
    /\ task_block = NoBlock
    /\ task_buf = NULL
    /\ \E c \in CacheSizes : read_blocks = [k \in 1..c |-> NULL]
    /\ current_block \in {NoBlock, 0}
    /\ do_stop \in BOOLEAN
    /\ readahead_miss \in BOOLEAN
    /\ rbs = NoReadBlocks
    /\ tested = {}
    /\ calc_total = TotalBlocks
    /\ calc_ret = NotCalculated
    /\ user = NoPoolCall

\* the task's steps at the loop head, wake-ups without a notify, and stop()
BackpressureNext ==
    \/ TaskStart
    \/ TaskWake
    \/ SpuriousWakeup
    \/ DtorBegin

BackpressureSpec == BackpressureInit /\ [][BackpressureNext]_vars

\* the task is at the top of its loop with a full cache, or in the
\* backpressure wait, and nothing releases it: the cache is above the low
\* level, no miss is pending and stop was not requested
MustPause ==
    /\ task_pc \in {"t_start", "t_bp_wait", "t_bp_woken"}
    /\ task_pc = "t_start" => CacheSize(read_blocks) >= readahead_num_blocks
    /\ CacheSize(read_blocks) > readahead_low_level_blocks
    /\ ~readahead_miss
    /\ ~do_stop

\* C18: once the task has seen readahead_num_blocks entries at the top of its
\* loop, it stays in the backpressure wait, and so starts no read, for as
\* long as the cache is above readahead_low_level_blocks, no miss is pending
\* and stop was not requested.
C18_PausedUntilReleased ==
    [][(MustPause /\ task_pc' # task_pc) =>
          task_pc' \in {"t_bp_wait", "t_bp_woken"}]_vars

\* C18 witness: the task found the cache full at the top of its loop and
\* waits
C18_Witness ==
    /\ task_pc = "t_bp_wait"
    /\ CacheSize(read_blocks) >= readahead_num_blocks
    /\ ~readahead_miss
    /\ ~do_stop

\* C20 (as claimed): the task starts the fetch of an occupied block only
\* when the block has no entry in the cache, and the insert after a fetch
\* adds a key; it never replaces an entry.
C20_NoFetchOfCachedBlock ==
    /\ []((task_pc = "t_read" /\ Occupied(current_block))
            => current_block \notin DOMAIN read_blocks)
    /\ [][(task_pc = "t_relock" /\ task_pc' # "t_relock") =>
             \A k \in DOMAIN read_blocks : read_blocks'[k] = read_blocks[k]]_vars

\* ===================================================== claims C21..C24

\* C21 (as claimed): a step of the task's forward scan leaves current_block
\* at an occupied, addressable block or at -1, and it tests no block index
\* outside 0..totalBlocks-1 on the way.
C21_ScanStaysInRange ==
    [][(task_pc = "t_scan" /\ current_block' # current_block) =>
          /\ current_block' = NoBlock \/ Occupied(current_block')
          /\ tested' = tested]_vars

\* the number of places that hold buffer b: positions of the idle stack, keys
\* of the cache, the read in progress of the caller or of the task, the caller
OwnerCount(b) ==
    Cardinality({j \in 1..Len(buffers) : buffers[j] = b})
    + Cardinality({k \in DOMAIN read_blocks : read_blocks[k] = b})
    + (IF cons_buf = b THEN 1 ELSE 0)
    + (IF task_buf = b THEN 1 ELSE 0)
    + (IF b \in held THEN 1 ELSE 0)

\* C22 (as claimed): every allocated buffer that was not freed is in exactly
\* one place: the idle stack, the cache under one key, a read in progress, or
\* with the caller that received it.
C22_BufferOwnership ==
    \A b \in (1..nalloc) \ freed : OwnerCount(b) = 1

\* what holds of the buffers: none is in two places, and a freed buffer is in
\* none
NoSharedBuffer ==
    /\ \A b \in (1..nalloc) \ freed : OwnerCount(b) <= 1
    /\ \A b \in freed : OwnerCount(b) = 0

\* ------------------------------------- the pool calls, lock by lock
\* The caller of readBlock stays in getBlock once the task runs, and all the
\* pool calls of Spec run one after the other.  Here a second thread of the
\* caller uses getBuffer and releaseBuffer while the task runs, and each pool
\* call is followed from its IScopedLock (lines 423, 439) to the end of the
\* call.

\* buffer_mutex is non-null: the constructor from a path creates it (line
\* 236), the constructor from an IFile* has no initializer for it (line 256)
buffer_mutex == ctor = "path"

\* the task is inside fs.releaseBuffer (called in line 193)
TaskInPool == task_pc = "t_release"

\* the second thread is inside getBuffer or releaseBuffer
UserInPool == user.pc # "out"

\* IScopedLock lock(buffer_mutex.get()) returns: at once on a null mutex (as
\* relock(NULL) in line 120 holds no lock), otherwise when no other thread is
\* inside
PoolLock(other_inside) == buffer_mutex => ~other_inside

\* what a pool call that ends while another thread is inside may leave of
\* Filesystem::buffers: both threads access the vector at once, the call
\* takes effect (done) or its write is lost (lost)
Raced(done, lost, other_inside) == IF other_inside THEN {done, lost} ELSE {done}

\* the lowest key of the cache below the block the task asked for: the entry
\* clearUnusedReadahead releases next (lines 186-189)
StaleKeys == {k \in DOMAIN read_blocks : k < task_block}
NextStale == CHOOSE k \in StaleKeys : \A j \in StaleKeys : k <= j

\* line 144: the task enters getBlock and takes ReadaheadThread::mutex
TaskGetBlockLock ==
    /\ task_pc = "t_gb_enter"
    /\ MutexFree
    /\ task_pc' = "t_clear"
    /\ UNCHANGED <<fsvars, poolvars, consvars, task_block, task_buf, read_blocks,
                   current_block, do_stop, readahead_miss, fs_pc>>
    /\ UNCHANGED <<rbs, tested, calcvars, user>>

\* lines 189-193 and 439: the task calls fs.releaseBuffer for a stale entry
TaskClearRelease ==
    /\ task_pc = "t_clear"
    /\ StaleKeys # {}
    /\ PoolLock(UserInPool)
    /\ task_pc' = "t_release"
    /\ UNCHANGED <<fsvars, poolvars, consvars, task_block, task_buf, read_blocks,
                   current_block, do_stop, readahead_miss, fs_pc>>
    /\ UNCHANGED <<rbs, tested, calcvars, user>>

\* lines 441-448 and 194: releaseBuffer ends and the entry is erased
TaskReleaseLeave ==
    /\ task_pc = "t_release"
    /\ LET pool == [buffers |-> buffers, freed |-> freed]
       IN \E p \in Raced(releaseBuffer(pool, read_blocks[NextStale]), pool,
                         UserInPool) :
            /\ buffers' = p.buffers
            /\ freed' = p.freed
    /\ read_blocks' = Without(read_blocks, {NextStale})
    /\ task_pc' = "t_clear"
    /\ UNCHANGED <<fsvars, nalloc, content, held, consvars, task_block, task_buf,
                   current_block, do_stop, readahead_miss, fs_pc>>
    /\ UNCHANGED <<rbs, tested, calcvars, user>>

\* line 196-198: no stale entry is left; the loop of getBlock follows
TaskClearDone ==
    /\ task_pc = "t_clear"
    /\ StaleKeys = {}
    /\ TaskGetBlockBody(FALSE)

\* the second thread calls getBuffer: line 423
UserGetBufferEnter ==
    /\ fs_pc = "live"
    /\ user.pc = "out"
    /\ Cardinality(held) < MaxHeld
    /\ buffers # <<>> \/ nalloc < MaxAlloc
    /\ PoolLock(TaskInPool)
    /\ user' = [pc |-> "getBuffer", buf |-> NULL]
    /\ UNCHANGED <<fsvars, poolvars, consvars, ravars, fs_pc, rbs, tested, calcvars>>

\* lines 425-433: getBuffer returns
UserGetBufferLeave ==
    /\ user.pc = "getBuffer"
    /\ LET g == getBuffer(buffers, nalloc)
       IN /\ g.nalloc <= MaxAlloc
          /\ buffers' \in Raced(g.buffers, buffers, TaskInPool)
          /\ nalloc' = g.nalloc
          /\ held' = IF g.buf = NULL THEN held ELSE held \cup {g.buf}
    /\ user' = NoPoolCall
    /\ UNCHANGED <<fsvars, freed, content, consvars, ravars, fs_pc, rbs, tested,
                   calcvars>>

\* the second thread calls releaseBuffer(b): line 439
UserReleaseEnter(b) ==
    /\ fs_pc = "live"
    /\ user.pc = "out"
    /\ b \in held
    /\ PoolLock(TaskInPool)
    /\ user' = [pc |-> "releaseBuffer", buf |-> b]
    /\ UNCHANGED <<fsvars, poolvars, consvars, ravars, fs_pc, rbs, tested, calcvars>>

\* lines 441-448: releaseBuffer returns
UserReleaseLeave ==
    /\ user.pc = "releaseBuffer"
    /\ LET pool == [buffers |-> buffers, freed |-> freed]
       IN \E p \in Raced(releaseBuffer(pool, user.buf), pool, TaskInPool) :
            /\ buffers' = p.buffers
            /\ freed' = p.freed
    /\ held' = held \ {user.buf}
    /\ content' = [content EXCEPT ![user.buf] = FreshContent]
    /\ user' = NoPoolCall
    /\ UNCHANGED <<fsvars, nalloc, consvars, ravars, fs_pc, rbs, tested, calcvars>>

\* a Filesystem with readahead on an open device whose first and last block
\* are occupied, after either constructor
LockInit == Init /\ read_ahead /\ dev = "open" /\ bitmap = {0, TotalBlocks - 1}

LockNext ==
    \/ \E i \in Requests : ReadBlock(i)
    \/ ConsGetBlockEnter
    \/ ConsGetBlockWake
    \/ TaskStart
    \/ TaskWake
    \/ TaskScanAdvance
    \/ TaskScanExit
    \/ TaskReadBlock
    \/ TaskGetBlockLock
    \/ TaskClearRelease
    \/ TaskReleaseLeave
    \/ TaskClearDone
    \/ TaskGetBlockWake
    \/ TaskInsert
    \/ SpuriousWakeup
    \/ UserGetBufferEnter
    \/ UserGetBufferLeave
    \/ \E b \in held : UserReleaseEnter(b)
    \/ UserReleaseLeave

LockSpec == LockInit /\ [][LockNext]_vars

\* C23 (as claimed): with either constructor, the task is never inside a
\* pool call while a thread of the caller is inside getBuffer or
\* releaseBuffer.
C23_PoolMutualExclusion == ~(TaskInPool /\ UserInPool)

\* what holds: the pool calls exclude each other where buffer_mutex exists
PoolExclusiveWithMutex == buffer_mutex => ~(TaskInPool /\ UserInPool)

\* the caller of readBlock enters getBlock with nothing cached, so its
\* clearUnusedReadahead makes no pool call
ConsumerEntersEmptyCache == cons_pc = "c_gb_enter" => DOMAIN read_blocks = {}

\* C24 (as claimed): when the open by path failed (dev is null and has_error
\* is set), has_error stays set, no readBlock call uses the missing handle,
\* and a readBlock of an occupied block without readahead returns no data.
C24_NullDevReadReportsError ==
    /\ [](dev = "null" => (hasError /\ ~(cons_pc = "crashed" /\ Occupied(cons_block))))
    /\ [][(dev = "null" /\ ~read_ahead /\ ret' # ret /\ Occupied(ret'.block))
             => ret'.buf = NULL]_vars

\* what holds after a failed open: the flag stays set, and readBlock of a
\* block that is not occupied returns no data
NullDevKeepsError ==
    /\ [](dev = "null" => hasError)
    /\ [][(dev = "null" /\ ret' # ret /\ ret'.block # NoBlock) =>
             (~Occupied(ret'.block) /\ ret'.buf = NULL)]_vars

====
